---- MODULE Spec2Model ----
(***************************************************************************)
(* ComicDownloader (src/src/comicdownloader/__init__.py): the per-URL       *)
(* pipeline find_images -> get_name -> Archive.download -> Archive.save,    *)
(* the progress block drawn with Cleared, and the pure functions            *)
(* img_from_node / find_images and sequential_search / get_name.            *)
(*                                                                         *)
(* A Python str is a sequence of one-character strings.  An Optional value  *)
(* is a sequence of length at most one: <<>> is None, <<v>> is the value v. *)
(***************************************************************************)
EXTENDS Integers, Sequences, FiniteSets, TLC

VARIABLES
    args, pc, idx, session, msg_lines, term, images, name, archive, imgs_data,
    tasks, doneOrder, gatherExc, exc, disk,
    started, located, named, downloaded, saved, failedTask,
    nodes, found, printed,
    nm_url, nm_number, nm_padding, nm_result

orchVars == <<args, pc, idx, session, msg_lines, term, images, name, archive,
              imgs_data, tasks, doneOrder, gatherExc, exc, disk,
              started, located, named, downloaded, saved, failedTask>>
locVars  == <<nodes, found, printed>>
nameVars == <<nm_url, nm_number, nm_padding, nm_result>>
vars     == <<orchVars, locVars, nameVars>>

(***************************************************************************)
(* Bounds of the model.                                                    *)
(***************************************************************************)
MaxUrls      == 2   \* URLs on the command line
MaxNodes     == 3   \* nodes handed to find_images on its own
MaxUrlLen    == 5   \* characters of a URL handed to get_name on its own

(***************************************************************************)
(* Program constants.                                                      *)
(***************************************************************************)
ImgPadding     == 3    \* f"{match.group(1):0>3}.jpg"
DefaultPadding == 3    \* --padding default
BarWidth       == 100  \* bar(..., width=100)

None == <<>>
Some(v) == <<v>>

SeqsUpTo(S, n) == UNION {[1..k -> S] : k \in 0..n}

(***************************************************************************)
(* str helpers.                                                            *)
(***************************************************************************)
Digits == {"0", "1", "2", "3", "4", "5", "6", "7", "8", "9"}

Whitespace == {" "}

\* str.endswith(suffix)
EndsWith(s, suf) ==
    /\ Len(s) >= Len(suf)
    /\ SubSeq(s, Len(s) - Len(suf) + 1, Len(s)) = suf

\* str.strip(): leading and trailing whitespace removed
Strip(s) ==
    LET keep == {i \in 1..Len(s) : s[i] \notin Whitespace}
    IN  IF keep = {} THEN <<>>
        ELSE LET lo == CHOOSE i \in keep : \A j \in keep : i <= j
                 hi == CHOOSE i \in keep : \A j \in keep : j <= i
             IN  SubSeq(s, lo, hi)

\* format(s, "0>w"): s right-aligned in a field of width w filled with "0"
PadLeft(s, w) ==
    IF Len(s) >= w THEN s ELSE [i \in 1..(w - Len(s)) |-> "0"] \o s

(***************************************************************************)
(* The two regular expressions of the program, each in the form           *)
(* re.search(regex, data) -> Optional[group(1)].                           *)
(***************************************************************************)
\* re.search(r"(\d+)", s): the leftmost digit, extended greedily
DigitSearch(s) ==
    LET ds == {i \in 1..Len(s) : s[i] \in Digits}
    IN  IF ds = {} THEN None
        ELSE LET lo == CHOOSE i \in ds : \A j \in ds : i <= j
                 run == {j \in lo..Len(s) : \A k \in lo..j : s[k] \in Digits}
                 hi == CHOOSE j \in run : \A k \in run : k <= j
             IN  Some(SubSeq(s, lo, hi))

\* The tail after the "/" at position i, as ([^/]+)/?$ captures it
NameTail(s, i) ==
    LET rest == SubSeq(s, i + 1, Len(s))
        seg == IF rest # <<>> /\ rest[Len(rest)] = "/"
               THEN SubSeq(rest, 1, Len(rest) - 1) ELSE rest
    IN  IF seg # <<>> /\ \A k \in 1..Len(seg) : seg[k] # "/"
        THEN Some(seg) ELSE None

\* re.search(r"^.+/([^/]+)/?$", s): .+ is greedy, so the last "/" that lets the
\* rest match is taken
NameSearch(s) ==
    LET cand == {i \in 2..Len(s) : s[i] = "/" /\ NameTail(s, i) # None}
    IN  IF cand = {} THEN None
        ELSE NameTail(s, CHOOSE i \in cand : \A j \in cand : j <= i)

Search(regex, data) ==
    IF regex = "url_name_pattern" THEN NameSearch(data) ELSE DigitSearch(data)

RECURSIVE sequential_search(_, _)
sequential_search(data, regexs) ==
    IF regexs = <<>> THEN Some(data)
    ELSE LET m == Search(Head(regexs), data)
         IN  IF m = None THEN None ELSE sequential_search(m[1], Tail(regexs))

\* regexs = [url_name_pattern] + ([r"(\d+)"] if args.number)
Regexs(number) ==
    IF number THEN <<"url_name_pattern", "digits">> ELSE <<"url_name_pattern">>

Cbz == <<".", "c", "b", "z">>

Jpg == <<".", "j", "p", "g">>

\* A faulty get_name: the padding branch is never taken
get_name_nopad(url, regexs, padding) ==
    LET nm == sequential_search(url, regexs)
    IN  IF nm = None THEN None ELSE Some(nm[1] \o Cbz)

\* get_name: None stands for the ValueError it raises
get_name(url, regexs, padding) ==
    LET nm == sequential_search(url, regexs)
    IN  IF nm = None THEN None
        ELSE IF padding # 0 THEN Some(PadLeft(nm[1], padding) \o Cbz)
        ELSE Some(nm[1] \o Cbz)

(***************************************************************************)
(* ImageLocator: img_from_node and find_images.  A node is the pair of     *)
(* Optional attribute values node.attributes.get(number_attr) and          *)
(* node.attributes.get(url_attr); number_pattern is the default (\d+).     *)
(***************************************************************************)
Node(number, url) == [number |-> number, url |-> url]

Img(filename, url) == [filename |-> filename, url |-> url]

Png == <<"p", "n", "g">>

\* "not x" for an Optional[str]: None and "" are falsy
Falsy(x) == x = None \/ x[1] = <<>>

\* A faulty img_from_node: the check of the "png" suffix is missing
SkipReasonNoPng(node) ==
    IF Falsy(node.url) \/ Falsy(node.number) THEN "absent"
    ELSE IF DigitSearch(node.number[1]) = None THEN "nonumber"
    ELSE ""

\* The reason img_from_node returns None for the node ("" when it returns an Img)
SkipReason(node) ==
    IF Falsy(node.url) \/ Falsy(node.number) THEN "absent"
    ELSE IF EndsWith(node.url[1], Png) THEN "png"
    ELSE IF DigitSearch(node.number[1]) = None THEN "nonumber"
    ELSE ""

img_from_node(node) ==
    IF SkipReason(node) # "" THEN None
    ELSE Some(Img(PadLeft(DigitSearch(node.number[1])[1], ImgPadding) \o Jpg,
                  Strip(node.url[1])))

RECURSIVE Flatten(_)
Flatten(opts) ==
    IF opts = <<>> THEN <<>> ELSE Head(opts) \o Flatten(Tail(opts))

\* [image for image in (img_from_node(n) for n in nodes) if image is not None]
find_images(ns) ==
    Flatten([i \in 1..Len(ns) |-> img_from_node(ns[i])])

(***************************************************************************)
(* The terminal: the rows written so far and the row the cursor is on      *)
(* (cur rows lie above it).  A line is [kind, arg].                        *)
(***************************************************************************)
Line(kind, arg) == [kind |-> kind, arg |-> arg]

Blank == Line("blank", 0)

\* print(line): the line is written on the cursor's row, the cursor moves down
WriteLine(t, l) ==
    IF t.cur < Len(t.rows)
    THEN [rows |-> [t.rows EXCEPT ![t.cur + 1] = l], cur |-> t.cur + 1]
    ELSE [rows |-> Append(t.rows, l), cur |-> t.cur + 1]

RECURSIVE WriteLines(_, _)
WriteLines(t, ls) ==
    IF ls = <<>> THEN t ELSE WriteLines(WriteLine(t, Head(ls)), Tail(ls))

\* "\033[1A\x1b[2K": cursor up one row, erase that row
EraseUp(t) ==
    LET c == IF t.cur > 0 THEN t.cur - 1 ELSE 0
    IN  [rows |-> IF Len(t.rows) > c THEN [t.rows EXCEPT ![c + 1] = Blank]
                  ELSE t.rows,
         cur |-> c]

\* print(msg.clear_str(), end=""): the sequence above, _lines times
RECURSIVE clear_str(_, _)
clear_str(t, n) == IF n = 0 THEN t ELSE clear_str(EraseUp(t), n - 1)

\* bar(completed, overall): the number of filled cells, ceil(completed * width / overall)
bar(completed, overall) ==
    (completed * BarWidth + overall - 1) \div overall

\* The lines find_images prints: one per node img_from_node drops
Diagnostics(ns) ==
    LET dropped == SelectSeq([i \in 1..Len(ns) |-> <<i, SkipReason(ns[i])>>],
                             LAMBDA p : p[2] # "")
    IN  [i \in 1..Len(dropped) |-> Line(dropped[i][2], dropped[i][1])]

(***************************************************************************)
(* Exceptions.  The code raises ValueError (get_name) and RuntimeError     *)
(* (no images; download_jpeg's wrapper, chained "from e"); an exception     *)
(* raised outside download_jpeg's try block propagates as it is.           *)
(***************************************************************************)
Exc(type, about, url, cause) ==
    [type |-> type, about |-> about, url |-> url, cause |-> cause]

NamingError(url) == Exc("ValueError", "name", Some(url), None)

EmptyResultError(url) == Exc("RuntimeError", "noimages", Some(url), None)

ImageFetchError(url, cause) == Exc("RuntimeError", "download", Some(url), Some(cause))

RawError(what) == Exc(what, "raw", None, None)

\* A faulty download_jpeg: the try block ends after session.get
download_jpeg_error_get_only(step, url) ==
    IF step = "get" THEN ImageFetchError(url, step) ELSE RawError(step)

\* download_jpeg: the exception that leaves it when `step` fails for the image at url.
\* session.get, response.acontent and Image.open are inside the try block,
\* image.save is after it.
download_jpeg_error(step, url) ==
    IF step \in {"get", "acontent", "open"}
    THEN ImageFetchError(url, step) ELSE RawError(step)

Jpeg(url) == [jpeg_of |-> url]

NoBytes == [jpeg_of |-> <<>>]

Task(st, out, step) == [st |-> st, out |-> out, step |-> step]

InFlight(ts) == {i \in 1..Len(ts) : ts[i].st \in {"get", "acontent"}}

(***************************************************************************)
(* asyncio.gather over the tasks: it returns when every task has returned, *)
(* the results in the order of the arguments; it raises the first         *)
(* exception a task raises, at once, and leaves the other tasks running.   *)
(***************************************************************************)
\* A faulty gather: it returns once every task has settled, failed ones included
GatherReturnsSettled(ts, gexc) ==
    \A i \in 1..Len(ts) : ts[i].st \in {"done", "failed"}

\* A faulty gather: it returns as soon as one task has returned
GatherReturnsFirst(ts, gexc) ==
    gexc = None /\ (Len(ts) = 0 \/ \E i \in 1..Len(ts) : ts[i].st = "done")

\* gather returns: no task has raised and every task has returned
GatherReturns(ts, gexc) ==
    gexc = None /\ \A i \in 1..Len(ts) : ts[i].st = "done"

\* A faulty gather: the results in the order the tasks completed in
GatherResultByCompletion(ts, order) ==
    [i \in 1..Len(ts) |-> IF i <= Len(order) THEN ts[order[i]].out ELSE ts[i].out]

\* The list gather returns: the results in the order of its arguments
GatherResult(ts, order) == [i \in 1..Len(ts) |-> ts[i].out]

(***************************************************************************)
(* Archive.save: ZipFile(directory / filename, "w") and one writestr per   *)
(* pair of zip(imgs, _imgs_data).  The disk maps a file name to the URL    *)
(* that wrote it and to the entries of the archive.                        *)
(***************************************************************************)
Min(a, b) == IF a <= b THEN a ELSE b

\* A faulty save: each filename is paired with the bytes of the next image
ZipEntriesShifted(imgs, data) ==
    [i \in 1..Min(Len(imgs), Len(data)) |->
        <<imgs[i].filename, data[(i % Min(Len(imgs), Len(data))) + 1]>>]

\* for img, data in zip(self.imgs, self._imgs_data): writestr(img.filename, data)
ZipEntries(imgs, data) ==
    [i \in 1..Min(Len(imgs), Len(data)) |-> <<imgs[i].filename, data[i]>>]

WriteFile(d, f, v) == [x \in DOMAIN d \cup {f} |-> IF x = f THEN v ELSE d[x]]

(***************************************************************************)
(* main.actions: the stages of one URL, in the order of lines 218-226.     *)
(***************************************************************************)
\* A faulty loop body: get_name is called before find_images
StageAfterNamingFirst(stage) ==
    CASE stage = "progress"    -> "naming"
      [] stage = "naming"      -> "locating"
      [] stage = "locating"    -> "checking"
      [] stage = "checking"    -> "downloading"
      [] stage = "downloading" -> "saving"
      [] stage = "saving"      -> "clearing"

\* The stage that follows `stage` in the loop body
StageAfter(stage) ==
    CASE stage = "progress"    -> "locating"
      [] stage = "locating"    -> "checking"
      [] stage = "checking"    -> "naming"
      [] stage = "naming"      -> "downloading"
      [] stage = "downloading" -> "saving"
      [] stage = "saving"      -> "clearing"

\* A faulty loop body: the exception is caught and the loop goes on
RaiseSwallowed(e) == pc' = "clearing" /\ exc' = Some(e)

\* An exception raised in the loop body: nothing in actions() catches it, so it
\* leaves the loop and the "async with" block
Raise(e) == pc' = "closing" /\ exc' = Some(e)

(***************************************************************************)
(* Inputs of a run.                                                        *)
(***************************************************************************)
UrlSet == {<<"c", "/", "7">>, <<"c", "/", "a">>}

\* Nodes of a page: two images, a third with the number of the first written
\* "01", and a png
NodeA == Node(Some(<<"1">>), Some(<<"u">>))

NodeB == Node(Some(<<"2">>), Some(<<"v">>))

NodeC == Node(Some(<<"0", "1">>), Some(<<"w">>))

NodeD == Node(Some(<<"3">>), Some(<<"x", "p", "n", "g">>))

\* The pages a URL of a run may serve
Pages ==
    { <<>>,
      <<NodeD>>,
      <<NodeD, NodeA>>,
      <<NodeA, NodeB>>,
      <<NodeA, NodeC>>,
      <<NodeA, NodeD, NodeB>>,
      <<NodeA, NodeB, NodeC>> }

NumUrls == Len(args.URLs)

Url == args.URLs[idx + 1]

hist == <<started, located, named, downloaded, saved, failedTask>>

LocIdle == nodes = <<>> /\ found = None /\ printed = <<>>

NameIdle == nm_url = <<>> /\ nm_number = TRUE /\ nm_padding = 0 /\ nm_result = None

\* The state when main() calls asyncio.run(actions())
Init ==
    /\ args \in [URLs : SeqsUpTo(UrlSet, MaxUrls) \ {<<>>},
                 number : BOOLEAN,
                 padding : {0, DefaultPadding}]
    /\ pc = "enter"
    /\ idx = 0
    /\ session = "unopened"
    /\ msg_lines = 0
    /\ term = [rows |-> <<>>, cur |-> 0]
    /\ images = <<>>
    /\ name = <<>>
    /\ archive = None
    /\ imgs_data = None
    /\ tasks = <<>>
    /\ doneOrder = <<>>
    /\ gatherExc = None
    /\ exc = None
    /\ disk = <<>>
    /\ started = {}
    /\ located = {}
    /\ named = {}
    /\ downloaded = {}
    /\ saved = {}
    /\ failedTask = 0
    /\ LocIdle
    /\ NameIdle

\* async with AsyncSession(...) as session: msg = Cleared()
Enter ==
    /\ pc = "enter"
    /\ session' = "open"
    /\ msg_lines' = 0
    /\ pc' = "loop"
    /\ UNCHANGED <<locVars, nameVars, args, idx, term, images, name, archive, imgs_data, tasks,
                   doneOrder, gatherExc, exc, disk, hist>>

\* msg = Cleared(bar(idx, len(URLs)), f"Processing {url!r}"); print(msg)
ShowProgress ==
    /\ pc = "loop"
    /\ idx < NumUrls
    /\ msg_lines' = 2
    /\ term' = WriteLines(term, <<Line("bar", bar(idx, NumUrls)), Line("label", idx)>>)
    /\ started' = started \cup {idx}
    /\ pc' = StageAfter("progress")
    /\ UNCHANGED <<locVars, nameVars, args, idx, session, images, name, archive, imgs_data, tasks,
                   doneOrder, gatherExc, exc, disk, located, named, downloaded,
                   saved, failedTask>>

\* images = await find_images(url, config, session): the page comes back and
\* img_from_node prints one line per node it drops
FindImages ==
    /\ pc = "locating"
    /\ \E page \in Pages :
          /\ images' = find_images(page)
          /\ term' = WriteLines(term, Diagnostics(page))
    /\ located' = located \cup {idx}
    /\ pc' = StageAfter("locating")
    /\ UNCHANGED <<locVars, nameVars, args, idx, session, msg_lines, name, archive, imgs_data, tasks,
                   doneOrder, gatherExc, exc, disk, started, named, downloaded,
                   saved, failedTask>>

\* await session.get(url) raises
FindImagesFails ==
    /\ pc = "locating"
    /\ located' = located \cup {idx}
    /\ Raise(RawError("page"))
    /\ UNCHANGED <<locVars, nameVars, args, idx, session, msg_lines, term, images, name, archive,
                   imgs_data, tasks, doneOrder, gatherExc, disk, started, named,
                   downloaded, saved, failedTask>>

\* if len(images) == 0: raise RuntimeError(f"No images found for {url!r}")
CheckImages ==
    /\ pc = "checking"
    /\ IF Len(images) = 0
       THEN Raise(EmptyResultError(Url))
       ELSE pc' = StageAfter("checking") /\ UNCHANGED exc
    /\ UNCHANGED <<locVars, nameVars, args, idx, session, msg_lines, term, images, name, archive,
                   imgs_data, tasks, doneOrder, gatherExc, disk, hist>>

\* get_name(url, regexs, args.padding), the first argument of Archive(...)
Naming ==
    /\ pc = "naming"
    /\ named' = named \cup {idx}
    /\ LET r == get_name(Url, Regexs(args.number), args.padding)
       IN  IF r = None
           THEN Raise(NamingError(Url)) /\ UNCHANGED name
           ELSE name' = r[1] /\ pc' = StageAfter("naming") /\ UNCHANGED exc
    /\ UNCHANGED <<locVars, nameVars, args, idx, session, msg_lines, term, images, archive,
                   imgs_data, tasks, doneOrder, gatherExc, disk, started, located,
                   downloaded, saved, failedTask>>

\* archive = Archive(name, images); archive.download(session) up to its await:
\* one task per image, each run to its session.get
Download ==
    /\ pc = "downloading"
    /\ archive' = Some([filename |-> name, imgs |-> images])
    /\ imgs_data' = None
    /\ tasks' = [i \in 1..Len(images) |-> Task("get", NoBytes, "")]
    /\ doneOrder' = <<>>
    /\ gatherExc' = None
    /\ failedTask' = 0
    /\ downloaded' = downloaded \cup {idx}
    /\ pc' = "gathering"
    /\ UNCHANGED <<locVars, nameVars, args, idx, session, msg_lines, term, images, name, exc, disk,
                   started, located, named, saved>>

\* The event loop runs the tasks while actions() waits in gather, and while the
\* session's __aexit__ runs after an exception
TasksRun == pc \in {"gathering", "closing"} /\ session = "open"

\* response = await session.get(self.url, stream=True) returns
TaskGetReturns(i) ==
    /\ TasksRun
    /\ i \in 1..Len(tasks)
    /\ tasks[i].st = "get"
    /\ tasks' = [tasks EXCEPT ![i].st = "acontent"]
    /\ UNCHANGED <<locVars, nameVars, args, pc, idx, session, msg_lines, term, images, name, archive,
                   imgs_data, doneOrder, gatherExc, exc, disk, hist>>

\* a step of download_jpeg raises: session.get; or, once the response is there,
\* response.acontent, Image.open or image.save
TaskFails(i, step) ==
    /\ TasksRun
    /\ i \in 1..Len(tasks)
    /\ \/ tasks[i].st = "get" /\ step = "get"
       \/ tasks[i].st = "acontent" /\ step \in {"acontent", "open", "save"}
    /\ tasks' = [tasks EXCEPT ![i] = Task("failed", NoBytes, step)]
    /\ gatherExc' = IF gatherExc = None
                    THEN Some(download_jpeg_error(step, archive[1].imgs[i].url))
                    ELSE gatherExc
    /\ failedTask' = IF gatherExc = None THEN i ELSE failedTask
    /\ UNCHANGED <<locVars, nameVars, args, pc, idx, session, msg_lines, term, images, name, archive,
                   imgs_data, doneOrder, exc, disk, started, located, named,
                   downloaded, saved>>

\* the body arrives, is decoded and re-encoded: return buffer.getvalue()
TaskReturns(i) ==
    /\ TasksRun
    /\ i \in 1..Len(tasks)
    /\ tasks[i].st = "acontent"
    /\ tasks' = [tasks EXCEPT ![i] = Task("done", Jpeg(archive[1].imgs[i].url), "")]
    /\ doneOrder' = Append(doneOrder, i)
    /\ UNCHANGED <<locVars, nameVars, args, pc, idx, session, msg_lines, term, images, name, archive,
                   imgs_data, gatherExc, exc, disk, hist>>

\* self._imgs_data = await asyncio.gather(...) returns
GatherReturn ==
    /\ pc = "gathering"
    /\ GatherReturns(tasks, gatherExc)
    /\ imgs_data' = Some(GatherResult(tasks, doneOrder))
    /\ pc' = StageAfter("downloading")
    /\ UNCHANGED <<locVars, nameVars, args, idx, session, msg_lines, term, images, name, archive,
                   tasks, doneOrder, gatherExc, exc, disk, hist>>

\* await asyncio.gather(...) raises the first exception of a task
GatherRaise ==
    /\ pc = "gathering"
    /\ gatherExc # None
    /\ Raise(gatherExc[1])
    /\ UNCHANGED <<locVars, nameVars, args, idx, session, msg_lines, term, images, name, archive,
                   imgs_data, tasks, doneOrder, gatherExc, disk, hist>>

\* archive.save(args.directory)
Save ==
    /\ pc = "saving"
    /\ LET a == archive[1]
           entries == ZipEntries(a.imgs, imgs_data[1])
       IN  /\ disk' = WriteFile(disk, a.filename, [by |-> idx, entries |-> entries])
           /\ saved' = saved \cup {idx}
    /\ pc' = StageAfter("saving")
    /\ UNCHANGED <<locVars, nameVars, args, idx, session, msg_lines, term, images, name, archive,
                   imgs_data, tasks, doneOrder, gatherExc, exc, started, located,
                   named, downloaded, failedTask>>

\* print(msg.clear_str(), end=""), and the loop goes to the next URL.  The
\* locals images and archive (with its tasks) are dead from here on: the next
\* iteration rebinds them before it reads them.
Clear ==
    /\ pc = "clearing"
    /\ term' = clear_str(term, msg_lines)
    /\ idx' = idx + 1
    /\ images' = <<>>
    /\ name' = <<>>
    /\ archive' = None
    /\ imgs_data' = None
    /\ tasks' = <<>>
    /\ doneOrder' = <<>>
    /\ pc' = "loop"
    /\ UNCHANGED <<locVars, nameVars, args, session, msg_lines, gatherExc, exc,
                   disk, hist>>

\* print(bar(len(URLs), len(URLs))) after the loop
FinalBar ==
    /\ pc = "loop"
    /\ idx = NumUrls
    /\ term' = WriteLine(term, Line("bar", bar(NumUrls, NumUrls)))
    /\ pc' = "closing"
    /\ UNCHANGED <<locVars, nameVars, args, idx, session, msg_lines, images, name, archive, imgs_data,
                   tasks, doneOrder, gatherExc, exc, disk, hist>>

\* AsyncSession.__aexit__: the session is closed, on the normal way out and when
\* an exception leaves the block
CloseSession ==
    /\ pc = "closing"
    /\ session' = "closed"
    /\ pc' = "shutdown"
    /\ UNCHANGED <<locVars, nameVars, args, idx, msg_lines, term, images, name, archive, imgs_data,
                   tasks, doneOrder, gatherExc, exc, disk, hist>>

\* asyncio.run ends: the tasks still pending are cancelled; an exception reaches
\* sys.excepthook, which prints it (its message alone without --verbose)
Shutdown ==
    /\ pc = "shutdown"
    /\ tasks' = [i \in 1..Len(tasks) |->
                    IF i \in InFlight(tasks)
                    THEN Task("cancelled", NoBytes, "") ELSE tasks[i]]
    /\ term' = IF exc # None THEN WriteLine(term, Line("error", 0)) ELSE term
    /\ pc' = IF exc # None THEN "terminated" ELSE "done"
    /\ UNCHANGED <<locVars, nameVars, args, idx, session, msg_lines, images, name, archive, imgs_data,
                   doneOrder, gatherExc, exc, disk, hist>>

TaskStep ==
    \E i \in 1..Len(tasks) :
        \/ TaskGetReturns(i)
        \/ TaskReturns(i)
        \/ \E step \in {"get", "acontent", "open", "save"} : TaskFails(i, step)

Next ==
    \/ Enter
    \/ ShowProgress
    \/ FindImages
    \/ FindImagesFails
    \/ CheckImages
    \/ Naming
    \/ Download
    \/ TaskStep
    \/ GatherReturn
    \/ GatherRaise
    \/ Save
    \/ Clear
    \/ FinalBar
    \/ CloseSession
    \/ Shutdown

Spec == Init /\ [][Next]_vars

(***************************************************************************)
(* find_images on its own: every sequence of up to MaxNodes nodes.         *)
(***************************************************************************)
OrchIdle ==
    /\ args = [URLs |-> <<>>, number |-> TRUE, padding |-> DefaultPadding]
    /\ pc = "idle"
    /\ idx = 0
    /\ session = "unopened"
    /\ msg_lines = 0
    /\ term = [rows |-> <<>>, cur |-> 0]
    /\ images = <<>>
    /\ name = <<>>
    /\ archive = None
    /\ imgs_data = None
    /\ tasks = <<>>
    /\ doneOrder = <<>>
    /\ gatherExc = None
    /\ exc = None
    /\ disk = <<>>
    /\ started = {}
    /\ located = {}
    /\ named = {}
    /\ downloaded = {}
    /\ saved = {}
    /\ failedTask = 0

NumberAttrs == {None, Some(<<>>), Some(<<"a">>), Some(<<"a", "1", "2">>)}

UrlAttrs ==
    {None, Some(<<>>), Some(<<"u">>), Some(<<" ", "u", " ">>), Some(<<"p", "n", "g">>)}

NodeSet == {Node(n, u) : n \in NumberAttrs, u \in UrlAttrs}

InitLocate ==
    /\ nodes \in SeqsUpTo(NodeSet, MaxNodes)
    /\ found = None
    /\ printed = <<>>
    /\ OrchIdle
    /\ NameIdle

\* find_images after the page is parsed: the list it returns, the lines it prints
Locate ==
    /\ found = None
    /\ found' = Some(find_images(nodes))
    /\ printed' = Diagnostics(nodes)
    /\ UNCHANGED <<nodes, orchVars, nameVars>>

NextLocate == Locate

SpecLocate == InitLocate /\ [][NextLocate]_vars

(***************************************************************************)
(* get_name on its own: every URL of up to MaxUrlLen characters, with and  *)
(* without --number, with --padding 0 and the default.                     *)
(***************************************************************************)
UrlChars == {"/", "a", "7"}

InitName ==
    /\ nm_url \in SeqsUpTo(UrlChars, MaxUrlLen)
    /\ nm_number \in BOOLEAN
    /\ nm_padding \in {0, DefaultPadding}
    /\ nm_result = None
    /\ OrchIdle
    /\ LocIdle

\* get_name(url, regexs, args.padding): Some(None) when it raises
ResolveName ==
    /\ nm_result = None
    /\ nm_result' = Some(get_name(nm_url, Regexs(nm_number), nm_padding))
    /\ UNCHANGED <<nm_url, nm_number, nm_padding, orchVars, locVars>>

NextName == ResolveName

SpecName == InitName /\ [][NextName]_vars

(***************************************************************************)
(*                              Properties                                 *)
(***************************************************************************)
PerUrlErrors == {"name", "noimages", "download"}

UrlIndexes == 0..(NumUrls - 1)

FailedTasks == {i \in 1..Len(tasks) : tasks[i].st = "failed"}

\* C1, as stated: when a URL fails with a naming, empty-result or image-fetch
\* error, the run still processes every subsequent URL, so a run that has ended
\* has started every URL.
C1_EveryUrlProcessed ==
    (pc = "terminated" /\ exc # None /\ exc[1].about \in PerUrlErrors)
        => started = UrlIndexes

\* C1, amended: a naming, empty-result or image-fetch error of a URL leaves the
\* loop: the session is closed, the run ends, and no URL after the failing one
\* is ever started.
C1_FailureEndsRun ==
    (exc # None /\ exc[1].about \in PerUrlErrors)
        => /\ pc \in {"closing", "shutdown", "terminated"}
           /\ started = 0..idx
           /\ (pc = "terminated" => session = "closed")

C1_Witness ==
    /\ pc = "terminated"
    /\ exc # None
    /\ exc[1].about \in PerUrlErrors
    /\ idx + 1 < NumUrls

\* C2: an archive is written for a URL only after every image task of that URL
\* has returned; once one image task of a URL has failed, Archive.save has not
\* run for that URL and no file written for it is on disk.
C2_NoArchiveAfterFailure ==
    /\ FailedTasks # {} =>
          /\ idx \notin saved
          /\ \A f \in DOMAIN disk : disk[f].by # idx
    /\ pc = "clearing" =>
          /\ idx \in saved
          /\ Len(tasks) = Len(archive[1].imgs)
          /\ \A i \in 1..Len(tasks) : tasks[i].st = "done"

C2_Witness ==
    /\ pc = "terminated"
    /\ FailedTasks # {}
    /\ \E i \in 1..Len(tasks) : tasks[i].st = "done"
    /\ idx \notin saved

\* C3: after a successful Archive.download the stored bytes have the length of
\* the descriptor list and the i-th blob is the fetch of the i-th descriptor,
\* whatever the order the tasks completed in; Archive.save then pairs each
\* entry's filename with the bytes of its own image.
C3_OrderPreserved ==
    /\ imgs_data # None =>
          /\ Len(imgs_data[1]) = Len(archive[1].imgs)
          /\ \A i \in 1..Len(imgs_data[1]) :
                imgs_data[1][i] = Jpeg(archive[1].imgs[i].url)
    /\ pc = "clearing" =>
          LET a == archive[1]
              e == disk[a.filename].entries
          IN  /\ Len(e) = Len(a.imgs)
              /\ \A i \in 1..Len(e) : e[i] = <<a.imgs[i].filename, Jpeg(a.imgs[i].url)>>

C3_Witness ==
    /\ pc = "clearing"
    /\ Len(doneOrder) >= 2
    /\ doneOrder[1] > doneOrder[2]
    /\ imgs_data[1][1] # imgs_data[1][2]

\* C4, as stated: the name is resolved before the page is fetched, so a URL
\* whose name cannot be resolved fails without any Locating step for it.
C4_NamingBeforeLocating ==
    (exc # None /\ exc[1].about = "name") => idx \notin located

\* C4, amended: the stages of a URL run in the order Locating, Naming,
\* Downloading, Saving: the page is fetched and found to hold an image before
\* the name is resolved, so a naming failure comes after the Locating step of
\* that URL, and a URL with no image fails before its name is resolved.
C4_LocatingBeforeNaming ==
    /\ saved \subseteq downloaded
    /\ downloaded \subseteq named
    /\ named \subseteq located
    /\ located \subseteq started
    /\ (exc # None /\ exc[1].about = "name") => (idx \in located /\ Len(images) > 0)
    /\ (exc # None /\ exc[1].about = "noimages") => idx \notin named

C4_Witness ==
    /\ exc # None
    /\ exc[1].about = "name"
    /\ idx \in located
    /\ idx \notin downloaded

DownloadFailed == exc # None /\ failedTask # 0

\* C5, as stated: whichever of fetch, decode and JPEG encode failed, the error
\* that reaches the orchestrator names the image's URL and carries the cause.
C5_AlwaysWrapped ==
    DownloadFailed =>
        /\ exc[1].about = "download"
        /\ exc[1].url = Some(archive[1].imgs[failedTask].url)
        /\ exc[1].cause # None

\* C5, amended: a failure of the network fetch (session.get, acontent) or of
\* opening the body as an image reaches the orchestrator as the wrapping error
\* that names the image's URL and carries the cause; a failure of the JPEG
\* encode reaches it as the encoder's own error, with no URL.
C5_WrappedExceptEncode ==
    DownloadFailed =>
        LET step == tasks[failedTask].step
            u == archive[1].imgs[failedTask].url
        IN  /\ step \in {"get", "acontent", "open"} =>
                  /\ exc[1].about = "download"
                  /\ exc[1].url = Some(u)
                  /\ exc[1].cause = Some(step)
            /\ step = "save" =>
                  /\ exc[1].about = "raw"
                  /\ exc[1].url = None

C5_Witness ==
    /\ DownloadFailed
    /\ pc = "terminated"
    /\ tasks[failedTask].step = "open"
    /\ exc[1].about = "download"

\* C6: at most one progress block (bar line) is visible on the terminal in
\* every state of a run, diagnostics of find_images included.
C6_OneBlockVisible ==
    Cardinality({i \in 1..Len(term.rows) : term.rows[i].kind = "bar"}) <= 1

\* C7: find_images drops every node whose number or URL attribute is missing or
\* empty, every node whose URL ends in "png" and every node whose number holds
\* no digit, and returns one descriptor per remaining node, in document order,
\* duplicates kept; a dropped node only prints a line.
Kept(n) ==
    /\ n.number # None /\ n.number[1] # <<>>
    /\ n.url # None /\ n.url[1] # <<>>
    /\ ~EndsWith(n.url[1], Png)
    /\ \E k \in 1..Len(n.number[1]) : n.number[1][k] \in Digits

KeptNodes == SelectSeq(nodes, Kept)

Unzip(entries) ==
    [f \in {entries[i][1] : i \in 1..Len(entries)} |->
        entries[CHOOSE i \in 1..Len(entries) :
                    /\ entries[i][1] = f
                    /\ \A j \in 1..Len(entries) : entries[j][1] = f => j <= i][2]]

\* C8, as stated: the saved file, unzipped, yields one file per descriptor,
\* named by the descriptor's filename and holding that descriptor's bytes.
C8_OneFilePerDescriptor ==
    pc = "clearing" =>
        LET a == archive[1]
            files == Unzip(disk[a.filename].entries)
        IN  /\ Cardinality(DOMAIN files) = Len(a.imgs)
            /\ \A i \in 1..Len(a.imgs) : files[a.imgs[i].filename] = imgs_data[1][i]

\* C8, amended: the saved file holds one entry per descriptor, in order, named
\* by the descriptor's filename and holding its bytes; unzipped, it yields one
\* file per distinct filename, holding the bytes of the last descriptor of that
\* name, which is one file per descriptor when the filenames differ.
C8_OneFilePerFilename ==
    pc = "clearing" =>
        LET a == archive[1]
            e == disk[a.filename].entries
            files == Unzip(e)
            n == Len(a.imgs)
        IN  /\ Len(e) = n
            /\ \A i \in 1..n : e[i] = <<a.imgs[i].filename, imgs_data[1][i]>>
            /\ DOMAIN files = {a.imgs[i].filename : i \in 1..n}
            /\ \A i \in 1..n :
                  (\A j \in (i + 1)..n : a.imgs[j].filename # a.imgs[i].filename)
                      => files[a.imgs[i].filename] = imgs_data[1][i]

C8_Witness ==
    /\ pc = "clearing"
    /\ Len(archive[1].imgs) = 3
    /\ archive[1].imgs[1].filename = archive[1].imgs[3].filename
    /\ imgs_data[1][1] # imgs_data[1][3]
    /\ Cardinality(DOMAIN Unzip(disk[archive[1].filename].entries)) = 2

\* The trailing path segment of a URL: what follows the last "/", one final "/"
\* set aside.
TrailingSegment(u) ==
    LET v == IF u # <<>> /\ u[Len(u)] = "/" THEN SubSeq(u, 1, Len(u) - 1) ELSE u
        sl == {i \in 1..Len(v) : v[i] = "/"}
        p == IF sl = {} THEN 0 ELSE CHOOSE i \in sl : \A j \in sl : j <= i
    IN  SubSeq(v, p + 1, Len(v))

NoNumberDefaults ==
    /\ nm_result # None
    /\ ~nm_number
    /\ nm_padding = DefaultPadding
    /\ NameSearch(nm_url) # None

\* C9, as stated: for a URL matching the default pattern, --no-number and the
\* other options at their defaults, the name is the trailing segment + ".cbz".
C9_SegmentDotCbz ==
    NoNumberDefaults => nm_result[1] = Some(TrailingSegment(nm_url) \o Cbz)

\* C9, amended: under the same conditions the name is the trailing segment,
\* zero-filled on the left to the default padding width 3, followed by ".cbz";
\* it is the segment itself followed by ".cbz" when the segment has 3
\* characters or more.
C9_PaddedSegmentDotCbz ==
    NoNumberDefaults =>
        LET seg == TrailingSegment(nm_url)
            fill == IF Len(seg) >= DefaultPadding THEN 0 ELSE DefaultPadding - Len(seg)
        IN  /\ nm_result[1] # None
            /\ nm_result[1][1] = [i \in 1..fill |-> "0"] \o seg \o Cbz
            /\ Len(seg) >= DefaultPadding => nm_result[1][1] = seg \o Cbz

C9_Witness ==
    /\ NoNumberDefaults
    /\ Len(TrailingSegment(nm_url)) = 1
    /\ nm_result[1] = Some(<<"0", "0">> \o TrailingSegment(nm_url) \o Cbz)

\* C10, as stated: no image task is in flight once the orchestrator has left
\* the Downloading state of its URL or the session has been closed.
C10_AllSettledOnExit ==
    (pc # "gathering" \/ session = "closed") => InFlight(tasks) = {}

\* C10, amended: when Archive.download returns, every task of the URL has
\* settled; when it raises, the tasks of the other images may still be in
\* flight while the exception leaves the loop and the session is closed, and
\* they are cancelled only when the event loop shuts down.
C10_SettledOnSuccessOnly ==
    /\ (pc # "gathering" /\ InFlight(tasks) # {}) =>
          /\ exc # None
          /\ failedTask # 0
          /\ pc \in {"closing", "shutdown"}
    /\ pc \in {"done", "terminated"} => InFlight(tasks) = {}

C10_Witness ==
    /\ session = "closed"
    /\ InFlight(tasks) # {}
    /\ exc # None

====
